---- MODULE Spec2Model ----
(***************************************************************************)
(* A model of the monitoring-topology materializer of main.go:             *)
(*   sanitizeFolderName      the name sanitizer,                            *)
(*   createContainerYaml     the per-container threshold filter,            *)
(*   createStructureAndYaml  the recursive walk that writes the tree.       *)
(* Go strings are TLA+ strings; Go slices are sequences (a nil slice is the *)
(* empty sequence); Go structs are records with the fields' Go names.       *)
(***************************************************************************)
EXTENDS Naturals, Sequences, FiniteSets, TLC

VARIABLES
    sanIn,       \* sanitizeFolderName: the argument `name`
    sanOut,      \* sanitizeFolderName: the values returned by successive calls
    yConfig,     \* createContainerYaml: the argument `config`
    yContainer,  \* createContainerYaml: the argument `container`
    yOut,        \* createContainerYaml: the returned Config, in a sequence
    yamlConfig,  \* createStructureAndYaml: the global configuration
    tree,        \* createStructureAndYaml: the root `containers` argument
    stack,       \* the call stack of createStructureAndYaml, innermost first
    dirs,        \* the file system: the directories under the working dir
    files,       \* the file system: path -> content of every regular file
    err,         \* the error returned by the outermost call, or NoError
    log          \* history: the file-system operations attempted, in order

sanVars  == <<sanIn, sanOut>>
yVars    == <<yConfig, yContainer, yOut>>
walkVars == <<yamlConfig, tree, stack, dirs, files, err, log>>
vars     == <<sanIn, sanOut, yConfig, yContainer, yOut,
              yamlConfig, tree, stack, dirs, files, err, log>>

-----------------------------------------------------------------------------
(* Strings *)

\* The i-th byte of s, as a one-character string.
CharAt(s, i) == SubSeq(s, i, i)

\* s without its first n bytes.
Drop(s, n) == SubSeq(s, n + 1, Len(s))

\* strings.ReplaceAll(s, old, new) for a non-empty `old`: the non-overlapping
\* occurrences of old, found left to right, are replaced by new.
RECURSIVE ReplaceAll(_, _, _)
ReplaceAll(s, old, new) ==
    IF Len(s) < Len(old) THEN s
    ELSE IF SubSeq(s, 1, Len(old)) = old
         THEN new \o ReplaceAll(Drop(s, Len(old)), old, new)
         ELSE CharAt(s, 1) \o ReplaceAll(Drop(s, 1), old, new)

\* A plausible slip: strings.Replace(s, old, new, 1), the first occurrence only.
ReplaceFirst(s, old, new) ==
    IF \E i \in 1..Len(s) : CharAt(s, i) = old
    THEN LET i == CHOOSE j \in 1..Len(s) :
                     /\ CharAt(s, j) = old
                     /\ \A k \in 1..(j - 1) : CharAt(s, k) # old
         IN  SubSeq(s, 1, i - 1) \o new \o Drop(s, i)
    ELSE s

-----------------------------------------------------------------------------
(* sanitizeFolderName *)

\* The `invalid` slice of sanitizeFolderName, in its order.
invalid == <<"/", "\\", ":", "*", "?", "\"", "<", ">", "|">>

\* The loop of sanitizeFolderName from its k-th iteration on.
RECURSIVE sanitizeFrom(_, _)
sanitizeFrom(result, k) ==
    IF k > Len(invalid) THEN result
    ELSE sanitizeFrom(ReplaceAll(result, invalid[k], "_"), k + 1)

\* The same loop with strings.Replace(..., 1) in place of ReplaceAll.
RECURSIVE sanitizeFirstOnlyFrom(_, _)
sanitizeFirstOnlyFrom(result, k) ==
    IF k > Len(invalid) THEN result
    ELSE sanitizeFirstOnlyFrom(ReplaceFirst(result, invalid[k], "_"), k + 1)

sanitizeFirstOnly(name) == sanitizeFirstOnlyFrom(name, 1)

sanitizeFolderName(name) == sanitizeFrom(name, 1)

-----------------------------------------------------------------------------
(* The sanitizer on its own: every string over Alphabet of at most MaxLen   *)
(* bytes is sanitized, and the result is sanitized again.                   *)

MaxLen == 3

Alphabet == {"/", "\\", ":", "*", "?", "\"", "<", ">", "|", "_", "a", "."}

RECURSIVE StringsOfLen(_)
StringsOfLen(n) ==
    IF n = 0 THEN {""}
    ELSE {c \o s : c \in Alphabet, s \in StringsOfLen(n - 1)}

Strings(n) == UNION {StringsOfLen(k) : k \in 0..n}

IdleSan  == sanIn = "" /\ sanOut = <<>>

SanInit ==
    /\ sanIn \in Strings(MaxLen)
    /\ sanOut = <<>>

\* A call of sanitizeFolderName: first on the input, then on its own result.
SanitizeCall ==
    /\ Len(sanOut) < 2
    /\ sanOut' = Append(sanOut,
                        sanitizeFolderName(IF sanOut = <<>> THEN sanIn
                                           ELSE sanOut[Len(sanOut)]))
    /\ UNCHANGED sanIn

-----------------------------------------------------------------------------
(* createContainerYaml *)

\* A plausible slip: the metric identifier is not compared.
MatchesEntityOnly(threshold, meta) == threshold.EntityID = meta.EntityID

\* `threshold.EntityID == meta.EntityID && threshold.MetricID == meta.MetricID`
Matches(threshold, meta) ==
    /\ threshold.EntityID = meta.EntityID
    /\ threshold.MetricID = meta.MetricID

\* `key := threshold.EntityID + "-" + threshold.MetricID`
ThresholdKey(threshold) == threshold.EntityID \o "-" \o threshold.MetricID

\* A plausible slip: the later threshold replaces the one stored under the key.
InsertLast(unique, key, threshold) ==
    [k \in DOMAIN unique \cup {key} |-> IF k = key THEN threshold ELSE unique[k]]

\* `if _, exists := uniqueThresholds[key]; !exists { uniqueThresholds[key] = threshold }`
InsertIfAbsent(unique, key, threshold) ==
    IF key \in DOMAIN unique THEN unique
    ELSE [k \in DOMAIN unique \cup {key} |->
             IF k = key THEN threshold ELSE unique[k]]

\* The body of the innermost loop, for one meta and one threshold.
VisitThreshold(unique, meta, threshold) ==
    IF Matches(threshold, meta)
    THEN InsertIfAbsent(unique, ThresholdKey(threshold), threshold)
    ELSE unique

\* `for _, threshold := range config.Source.Entity.MetricThresholds`, from t on.
RECURSIVE ThresholdLoop(_, _, _, _)
ThresholdLoop(unique, meta, thresholds, t) ==
    IF t > Len(thresholds) THEN unique
    ELSE ThresholdLoop(VisitThreshold(unique, meta, thresholds[t]),
                       meta, thresholds, t + 1)

\* `for _, meta := range graph.GraphMetadata`, from m on.
RECURSIVE MetaLoop(_, _, _, _)
MetaLoop(unique, metas, thresholds, m) ==
    IF m > Len(metas) THEN unique
    ELSE MetaLoop(ThresholdLoop(unique, metas[m], thresholds, 1),
                  metas, thresholds, m + 1)

\* `for _, graph := range container.Graphs`, from g on.
RECURSIVE GraphLoop(_, _, _, _)
GraphLoop(unique, graphs, thresholds, g) ==
    IF g > Len(graphs) THEN unique
    ELSE GraphLoop(MetaLoop(unique, graphs[g].GraphMetadata, thresholds, 1),
                   graphs, thresholds, g + 1)

\* The graphs of a container followed by those of every container nested in it.
RECURSIVE GraphsDeep(_)
RECURSIVE GraphsDeepOfList(_, _)
RECURSIVE GraphsDeepOfMetas(_, _)
RECURSIVE GraphsDeepOfGraphs(_, _)
GraphsDeepOfList(containers, i) ==
    IF i > Len(containers) THEN <<>>
    ELSE GraphsDeep(containers[i]) \o GraphsDeepOfList(containers, i + 1)
GraphsDeepOfMetas(metas, m) ==
    IF m > Len(metas) THEN <<>>
    ELSE GraphsDeepOfList(metas[m].MetadataLayout.Containers, 1)
         \o GraphsDeepOfMetas(metas, m + 1)
GraphsDeepOfGraphs(graphs, g) ==
    IF g > Len(graphs) THEN <<>>
    ELSE GraphsDeepOfMetas(graphs[g].GraphMetadata, 1)
         \o GraphsDeepOfGraphs(graphs, g + 1)
GraphsDeep(container) ==
    container.Graphs \o GraphsDeepOfGraphs(container.Graphs, 1)

\* A plausible slip: the metadata of nested containers is matched as well.
uniqueThresholdsDeep(config, container) ==
    GraphLoop(<<>>, GraphsDeep(container), config.Source.Entity.MetricThresholds, 1)

\* The map `uniqueThresholds` when the three nested loops have run.
uniqueThresholds(config, container) ==
    GraphLoop(<<>>, container.Graphs, config.Source.Entity.MetricThresholds, 1)

\* `for _, threshold := range uniqueThresholds`: Go leaves the order of a range
\* over a map unspecified, so every order of the keys is possible.
MapOrders(unique) ==
    LET n == Cardinality(DOMAIN unique)
    IN  {o \in [1..n -> DOMAIN unique] :
            \A i, j \in 1..n : o[i] = o[j] => i = j}

\* A plausible slip: the Whitelist field is left out of the literal.
createContainerYamlNoWhitelist(config, container, order) ==
    [Source |->
        [DefaultConfig |-> config.Source.DefaultConfig,
         Entity |->
            [Name             |-> config.Source.Entity.Name,
             ID               |-> config.Source.Entity.ID,
             Ignore           |-> config.Source.Entity.Ignore,
             Whitelist        |-> [EntityIds |-> <<>>],
             MetricThresholds |->
                 [i \in 1..Len(order) |->
                     uniqueThresholds(config, container)[order[i]]]]]]

\* createContainerYaml(config, container) when the range over the map yields
\* the keys in `order`.
createContainerYaml(config, container, order) ==
    [Source |->
        [DefaultConfig |-> config.Source.DefaultConfig,
         Entity |->
            [Name             |-> config.Source.Entity.Name,
             ID               |-> config.Source.Entity.ID,
             Ignore           |-> config.Source.Entity.Ignore,
             Whitelist        |-> config.Source.Entity.Whitelist,
             MetricThresholds |->
                 [i \in 1..Len(order) |->
                     uniqueThresholds(config, container)[order[i]]]]]]

\* Every Config createContainerYaml may return.
DerivedConfigs(config, container) ==
    {createContainerYaml(config, container, o) :
        o \in MapOrders(uniqueThresholds(config, container))}

-----------------------------------------------------------------------------
(* Inputs: topology trees and global configurations *)

\* A GraphMeta; LegendName is never read and is left out.
GraphMeta(pair, children) ==
    [EntityID |-> pair[1], MetricID |-> pair[2],
     MetadataLayout |-> [Containers |-> children]]

\* The trees with exactly c containers and m graph-metadata entries in all,
\* names drawn from N and (EntityID, MetricID) pairs from P.  A graph holds at
\* least one entry; a container list under an entry is nil or non-empty.
RECURSIVE ContainerLists(_, _, _, _)
RECURSIVE ContainersOf(_, _, _, _)
RECURSIVE GraphLists(_, _, _, _)
RECURSIVE MetaLists(_, _, _, _)
RECURSIVE MetasOf(_, _, _, _)

ContainerLists(N, P, c, m) ==
    IF c = 0 THEN (IF m = 0 THEN {<<>>} ELSE {})
    ELSE UNION {{<<x>> \o rest : x \in ContainersOf(N, P, c1, m1),
                                 rest \in ContainerLists(N, P, c - c1, m - m1)} :
                c1 \in 1..c, m1 \in 0..m}

ContainersOf(N, P, c, m) ==
    {[ContainerName |-> n, Graphs |-> gs] :
        n \in N, gs \in GraphLists(N, P, c - 1, m)}

GraphLists(N, P, c, m) ==
    IF m = 0 THEN (IF c = 0 THEN {<<>>} ELSE {})
    ELSE UNION {{<<[GraphMetadata |-> ms]>> \o rest :
                    ms \in MetaLists(N, P, c1, m1),
                    rest \in GraphLists(N, P, c - c1, m - m1)} :
                c1 \in 0..c, m1 \in 1..m}

MetaLists(N, P, c, m) ==
    UNION {{<<x>> \o rest :
               x \in MetasOf(N, P, c1, m1),
               rest \in (IF m - m1 = 0
                         THEN (IF c - c1 = 0 THEN {<<>>} ELSE {})
                         ELSE MetaLists(N, P, c - c1, m - m1))} :
           c1 \in 0..c, m1 \in 1..m}

MetasOf(N, P, c, m) ==
    IF c = 0
    THEN (IF m = 1 THEN {GraphMeta(p, <<>>) : p \in P} ELSE {})
    ELSE {GraphMeta(p, cl) : p \in P, cl \in ContainerLists(N, P, c, m - 1)}

\* A MetricThreshold; of the fields that are copied and never read only Min is
\* kept.
MetricThreshold(pair, min) == [EntityID |-> pair[1], MetricID |-> pair[2], Min |-> min]

\* The sequences over S of length at most n.
RECURSIVE SeqsUpTo(_, _)
SeqsUpTo(S, n) ==
    IF n = 0 THEN {<<>>}
    ELSE SeqsUpTo(S, n - 1) \cup
         {Append(s, x) : s \in {q \in SeqsUpTo(S, n - 1) : Len(q) = n - 1}, x \in S}

\* Two global configurations that differ in every field that is passed through.
DefaultConfigs ==
    <<[EmailConfigName |-> "mail-a", SlackConfigName |-> "slack-a",
       IncidentSevTwoConfigName |-> "sev2-a",
       IncidentSevThreeConfigName |-> "sev3-a",
       IncidentSevFourConfigName |-> "sev4-a",
       Incident |-> [Severity |-> "SEV2", Enabled |-> TRUE]],
      [EmailConfigName |-> "mail-b", SlackConfigName |-> "slack-b",
       IncidentSevTwoConfigName |-> "sev2-b",
       IncidentSevThreeConfigName |-> "sev3-b",
       IncidentSevFourConfigName |-> "sev4-b",
       Incident |-> [Severity |-> "SEV4", Enabled |-> FALSE]]>>

Config(h, thresholds) ==
    [Source |->
        [DefaultConfig |-> DefaultConfigs[h],
         Entity |->
            [Name      |-> IF h = 1 THEN "entity-a" ELSE "entity-b",
             ID        |-> IF h = 1 THEN "id-a" ELSE "id-b",
             Ignore    |-> [EntityIds |-> IF h = 1 THEN <<"e0">> ELSE <<>>],
             Whitelist |-> [EntityIds |-> IF h = 1 THEN <<"e1", "e2">> ELSE <<"e3">>],
             MetricThresholds |-> thresholds]]]

-----------------------------------------------------------------------------
(* createContainerYaml on its own: one call on every configuration of at    *)
(* most MaxThresholds thresholds and every container of at most MaxYamlMetas *)
(* graph-metadata entries, with or without one nested container.            *)

MaxThresholds == 2
MaxYamlMetas == 2

\* Identifiers with and without the "-" that the map key is built with.
YamlPairs == {<<e, m>> : e \in {"a", "a-b"}, m \in {"c", "b-c"}}

YamlThresholds == {MetricThreshold(p, min) : p \in YamlPairs, min \in {0, 5}}

YamlContainers ==
    UNION {ContainersOf({"A"}, YamlPairs, c, m) : c \in 1..2, m \in 0..MaxYamlMetas}

IdleYaml ==
    /\ yConfig = Config(1, <<>>)
    /\ yContainer = [ContainerName |-> "", Graphs |-> <<>>]
    /\ yOut = <<>>

YamlInit ==
    /\ yConfig \in {Config(h, ts) : h \in {1, 2},
                                   ts \in SeqsUpTo(YamlThresholds, MaxThresholds)}
    /\ yContainer \in YamlContainers
    /\ yOut = <<>>

\* A call of createContainerYaml.
DeriveCall ==
    /\ yOut = <<>>
    /\ \E c \in DerivedConfigs(yConfig, yContainer) : yOut' = <<c>>
    /\ UNCHANGED <<yConfig, yContainer>>

-----------------------------------------------------------------------------
(* Paths: path/filepath on a system whose separator is "/" *)

\* The elements of path between its separators, empty ones included.
RECURSIVE SplitFrom(_, _, _)
SplitFrom(path, i, cur) ==
    IF i > Len(path) THEN <<cur>>
    ELSE IF CharAt(path, i) = "/"
         THEN <<cur>> \o SplitFrom(path, i + 1, "")
         ELSE SplitFrom(path, i + 1, cur \o CharAt(path, i))

Split(path) == SplitFrom(path, 1, "")

\* strings.Join(elems, "/")
RECURSIVE JoinSegs(_)
JoinSegs(segs) ==
    IF segs = <<>> THEN ""
    ELSE IF Len(segs) = 1 THEN segs[1]
         ELSE segs[1] \o "/" \o JoinSegs(Tail(segs))

\* The elements Clean keeps of segs[k..], given those kept so far: "" and "."
\* are dropped, ".." removes the element before it, and a ".." with nothing
\* before it is kept in a relative path and dropped in a rooted one.
RECURSIVE CleanFrom(_, _, _, _)
CleanFrom(segs, k, out, rooted) ==
    IF k > Len(segs) THEN out
    ELSE LET seg == segs[k] IN
         IF seg = "" \/ seg = "." THEN CleanFrom(segs, k + 1, out, rooted)
         ELSE IF seg = ".."
              THEN IF out # <<>> /\ out[Len(out)] # ".."
                   THEN CleanFrom(segs, k + 1, SubSeq(out, 1, Len(out) - 1), rooted)
                   ELSE IF rooted
                        THEN CleanFrom(segs, k + 1, out, rooted)
                        ELSE CleanFrom(segs, k + 1, Append(out, ".."), rooted)
              ELSE CleanFrom(segs, k + 1, Append(out, seg), rooted)

\* filepath.Clean(path)
Clean(path) ==
    LET rooted == Len(path) > 0 /\ CharAt(path, 1) = "/"
        kept   == JoinSegs(CleanFrom(Split(path), 1, <<>>, rooted))
        out    == IF rooted THEN "/" \o kept ELSE kept
    IN  IF out = "" THEN "." ELSE out

\* A plausible slip: the two elements are concatenated and never cleaned.
JoinRaw(a, b) == a \o "/" \o b

\* filepath.Join(a, b): empty elements are ignored, the rest are joined by
\* the separator and the result is cleaned; "" when both are empty.
Join(a, b) ==
    IF a = "" /\ b = "" THEN ""
    ELSE IF a = "" THEN Clean(b)
    ELSE IF b = "" THEN Clean(a)
    ELSE Clean(a \o "/" \o b)

\* The path and its ancestors, as os.MkdirAll walks them.
PathPrefixes(path) ==
    LET segs == Split(path)
    IN  {JoinSegs(SubSeq(segs, 1, k)) : k \in 1..Len(segs)} \ {""}

\* os.MkdirAll(path, 0755) when it succeeds: the directory and every missing
\* ancestor exist afterwards.
MkdirAll(ds, path) == ds \cup PathPrefixes(path)

\* yaml.Marshal(containerYaml): a stream of one document.  Marshal cannot fail
\* on these struct types, so its error branch is not an action.
Marshal(config) == <<config>>

-----------------------------------------------------------------------------
(* createStructureAndYaml *)

\* `basePath := "monitoring_structure"` of main.
RootBase == "monitoring_structure"

NoError == [op |-> "none", path |-> ""]

\* `sanitizedName := sanitizeFolderName(container.ContainerName)`
\* `currentPath := filepath.Join(basePath, sanitizedName)`
CurrentPath(basePath, container) ==
    Join(basePath, sanitizeFolderName(container.ContainerName))

\* The local `currentPath` when the outer loop is at containers[i]; "" when
\* the loop is over.
PathAt(basePath, containers, i) ==
    IF i <= Len(containers) THEN CurrentPath(basePath, containers[i]) ELSE ""

\* A frame of createStructureAndYaml: its arguments, the index i of the
\* container the outer loop is at, the local currentPath, the statement the
\* frame is at, and the number k of the nested call it makes next.  pos is
\* history: the place of `containers` in the input tree.
Frame(basePath, containers, pos) ==
    [basePath |-> basePath, containers |-> containers, i |-> 1,
     currentPath |-> PathAt(basePath, containers, 1),
     pc |-> "mkdir", k |-> 1, pos |-> pos]

\* `yamlPath := filepath.Join(currentPath, "config.yaml")`
YamlPath(currentPath) == Join(currentPath, "config.yaml")

\* The <<graph, meta>> indices of the container's nested lists, in the order
\* of the two loops over container.Graphs and graph.GraphMetadata; a list is
\* skipped when `meta.MetadataLayout.Containers != nil` is false.  (A list that
\* is empty and not nil would be a call that returns nil at once.)
RECURSIVE NestedFrom(_, _, _)
NestedFrom(container, g, m) ==
    IF g > Len(container.Graphs) THEN <<>>
    ELSE IF m > Len(container.Graphs[g].GraphMetadata)
         THEN NestedFrom(container, g + 1, 1)
         ELSE (IF container.Graphs[g].GraphMetadata[m].MetadataLayout.Containers # <<>>
               THEN <<(<<g, m>>)>> ELSE <<>>)
              \o NestedFrom(container, g, m + 1)

\* A plausible slip: the nested lists are visited last to first.
NestedCallsReversed(container) ==
    LET calls == NestedFrom(container, 1, 1)
    IN  [j \in 1..Len(calls) |-> calls[Len(calls) + 1 - j]]

NestedCalls(container) == NestedFrom(container, 1, 1)

\* A plausible slip: the caller drops the error of the nested call and goes on.
ReturnErrIgnored(stk) == Tail(stk)

\* `return fmt.Errorf(...)` and, in every caller, `return err`: the error
\* leaves every frame.
ReturnErr(stk) == <<>>

Top == Head(stack)
TopContainer == Top.containers[Top.i]
TopPath == Top.currentPath
TopNode == Top.pos \o <<Top.i>>

SetTop(f) == <<f>> \o Tail(stack)

Event(op) == [op |-> op, node |-> TopNode, base |-> Top.basePath, path |-> TopPath]

AtContainer(pc) ==
    /\ stack # <<>>
    /\ Top.i <= Len(Top.containers)
    /\ Top.pc = pc

\* os.MkdirAll(currentPath, 0755) succeeds.
MkdirOk ==
    /\ AtContainer("mkdir")
    /\ TopPath \notin DOMAIN files
    /\ dirs' = MkdirAll(dirs, TopPath)
    /\ stack' = SetTop([Top EXCEPT !.pc = "write"])
    /\ log' = Append(log, Event("mkdir"))
    /\ UNCHANGED <<yamlConfig, tree, files, err>>

\* os.MkdirAll fails: `return fmt.Errorf("error creating directory ...")`.
MkdirFail ==
    /\ AtContainer("mkdir")
    /\ err' = [op |-> "mkdir", path |-> TopPath]
    /\ stack' = ReturnErr(stack)
    /\ UNCHANGED <<yamlConfig, tree, dirs, files, log>>

\* createContainerYaml, yaml.Marshal and ioutil.WriteFile succeed: the file
\* holds the marshalled configuration, whatever it held before.
WriteOk ==
    /\ AtContainer("write")
    /\ YamlPath(TopPath) \notin dirs
    /\ \E c \in DerivedConfigs(yamlConfig, TopContainer) :
          files' = [p \in DOMAIN files \cup {YamlPath(TopPath)} |->
                       IF p = YamlPath(TopPath) THEN Marshal(c) ELSE files[p]]
    /\ stack' = SetTop([Top EXCEPT !.pc = "nested", !.k = 1])
    /\ log' = Append(log, Event("write"))
    /\ UNCHANGED <<yamlConfig, tree, dirs, err>>

\* ioutil.WriteFile fails: either the file could not be opened and nothing
\* changed, or it was created or truncated and the write itself failed.
WriteFail ==
    /\ AtContainer("write")
    /\ \/ files' = files
       \/ files' = [p \in DOMAIN files \cup {YamlPath(TopPath)} |->
                       IF p = YamlPath(TopPath) THEN <<>> ELSE files[p]]
    /\ err' = [op |-> "write", path |-> YamlPath(TopPath)]
    /\ stack' = ReturnErr(stack)
    /\ UNCHANGED <<yamlConfig, tree, dirs, log>>

\* The next nested list that is not nil: the recursive call
\* createStructureAndYaml(currentPath, meta.MetadataLayout.Containers, yamlConfig).
Descend ==
    /\ AtContainer("nested")
    /\ Top.k <= Len(NestedCalls(TopContainer))
    /\ LET gm == NestedCalls(TopContainer)[Top.k]
           children ==
               TopContainer.Graphs[gm[1]].GraphMetadata[gm[2]].MetadataLayout.Containers
       IN  stack' = <<Frame(TopPath, children, TopNode \o gm)>>
                    \o SetTop([Top EXCEPT !.k = Top.k + 1])
    /\ UNCHANGED <<yamlConfig, tree, dirs, files, err, log>>

\* The loops over the graphs are over: the outer loop takes the next container.
NextContainer ==
    /\ AtContainer("nested")
    /\ Top.k > Len(NestedCalls(TopContainer))
    /\ stack' = SetTop([Top EXCEPT
                            !.i = Top.i + 1,
                            !.currentPath = PathAt(Top.basePath, Top.containers, Top.i + 1),
                            !.pc = "mkdir", !.k = 1])
    /\ UNCHANGED <<yamlConfig, tree, dirs, files, err, log>>

\* The outer loop is over: `return nil`.
ReturnNil ==
    /\ stack # <<>>
    /\ Top.i > Len(Top.containers)
    /\ stack' = Tail(stack)
    /\ UNCHANGED <<yamlConfig, tree, dirs, files, err, log>>

-----------------------------------------------------------------------------
(* The walk: every tree of at most MaxContainers containers and MaxMetas     *)
(* graph-metadata entries is materialized under RootBase, which main has     *)
(* created; any MkdirAll and any WriteFile may fail.                         *)

MaxContainers == 3
MaxMetas == 2

\* Names that are safe, that hold a reserved character, and that are path
\* elements with a meaning of their own.
TreeNames == {"a", "_", "/", "", ".", ".."}

TreePairs == {<<"e1", "m1">>}

TreeConfigs ==
    {Config(1, <<MetricThreshold(<<"e1", "m1">>, 0), MetricThreshold(<<"e1", "m1">>, 5)>>),
     Config(2, <<MetricThreshold(<<"e1", "m1">>, 5)>>)}

\* Two of those names: a safe one and one that the sanitizer changes.
FewNames == {"a", "/"}

Trees(names) ==
    UNION {ContainerLists(names, TreePairs, c, m) :
           c \in 0..MaxContainers, m \in 0..MaxMetas}

IdleWalk ==
    /\ yamlConfig = Config(1, <<>>)
    /\ tree = <<>>
    /\ stack = <<>>
    /\ dirs = {}
    /\ files = <<>>
    /\ err = NoError
    /\ log = <<>>

WalkInit(names) ==
    /\ yamlConfig \in TreeConfigs
    /\ tree \in Trees(names)
    /\ stack = <<Frame(RootBase, tree, <<>>)>>
    /\ dirs = {".", RootBase}
    /\ files = <<>>
    /\ err = NoError
    /\ log = <<>>

-----------------------------------------------------------------------------
(* Specifications *)

Init == IdleSan /\ IdleYaml /\ WalkInit(TreeNames)

Next ==
    \/ MkdirOk /\ UNCHANGED <<sanVars, yVars>>
    \/ MkdirFail /\ UNCHANGED <<sanVars, yVars>>
    \/ WriteOk /\ UNCHANGED <<sanVars, yVars>>
    \/ WriteFail /\ UNCHANGED <<sanVars, yVars>>
    \/ Descend /\ UNCHANGED <<sanVars, yVars>>
    \/ NextContainer /\ UNCHANGED <<sanVars, yVars>>
    \/ ReturnNil /\ UNCHANGED <<sanVars, yVars>>

\* The walk of createStructureAndYaml.
Spec == Init /\ [][Next]_vars

InitFewNames == IdleSan /\ IdleYaml /\ WalkInit(FewNames)

\* The same walk of the trees whose names are drawn from FewNames.
SpecFewNames == InitFewNames /\ [][Next]_vars

SanNext == SanitizeCall /\ UNCHANGED <<yVars, walkVars>>

\* Calls of sanitizeFolderName.
InitSan == SanInit /\ IdleYaml /\ IdleWalk

SpecSan == InitSan /\ [][SanNext]_vars

YamlNext == DeriveCall /\ UNCHANGED <<sanVars, walkVars>>

\* Calls of createContainerYaml.
InitYaml == IdleSan /\ YamlInit /\ IdleWalk

SpecYaml == InitYaml /\ [][YamlNext]_vars

-----------------------------------------------------------------------------
(* What the claims speak of *)

\* The characters the sanitizer is specified to replace.
Reserved == {"/", "\\", ":", "*", "?", "\"", "<", ">", "|"}

PairOf(x) == <<x.EntityID, x.MetricID>>

\* The pairs of the GraphMeta entries directly under the container's graphs.
DirectPairs(container) ==
    UNION {{PairOf(container.Graphs[g].GraphMetadata[m]) :
               m \in DOMAIN container.Graphs[g].GraphMetadata} :
           g \in DOMAIN container.Graphs}

\* The pairs of the GraphMeta entries of the containers nested in the container.
NestedPairs(container) ==
    LET deep == GraphsDeepOfGraphs(container.Graphs, 1)
    IN  UNION {{PairOf(deep[g].GraphMetadata[m]) : m \in DOMAIN deep[g].GraphMetadata} :
               g \in DOMAIN deep}

YamlGlobal == yConfig.Source.Entity.MetricThresholds
YamlDerived == yOut[1].Source.Entity.MetricThresholds

\* The places of the containers of a tree: <<i>> is the i-th container of the
\* list, and n \o <<g, m, j>> the j-th container of the list under entry m of
\* graph g of the container at n.
RECURSIVE PlacesOf(_, _)
PlacesOf(containers, prefix) ==
    UNION {{prefix \o <<i>>} \cup
           UNION {UNION {PlacesOf(
                             containers[i].Graphs[g].GraphMetadata[m].MetadataLayout.Containers,
                             prefix \o <<i, g, m>>) :
                         m \in DOMAIN containers[i].Graphs[g].GraphMetadata} :
                  g \in DOMAIN containers[i].Graphs} :
           i \in DOMAIN containers}

\* The container at a place of the tree.
RECURSIVE ContainerAt(_, _)
ContainerAt(containers, place) ==
    IF Len(place) = 1 THEN containers[place[1]]
    ELSE ContainerAt(
             containers[place[1]].Graphs[place[2]].GraphMetadata[place[3]].MetadataLayout.Containers,
             SubSeq(place, 4, Len(place)))

\* base/sanitize(c1)/.../sanitize(ck) for the chain c1, ..., ck that ends at
\* the place, as the file system resolves it.
RECURSIVE DirOf(_, _, _)
DirOf(base, containers, place) ==
    LET here == Join(base, sanitizeFolderName(containers[place[1]].ContainerName))
    IN  IF Len(place) = 1 THEN here
        ELSE DirOf(here,
                   containers[place[1]].Graphs[place[2]].GraphMetadata[place[3]].MetadataLayout.Containers,
                   SubSeq(place, 4, Len(place)))

\* Depth-first pre-order: for each container in input order its mkdir, its
\* write, then the lists under its graphs and their entries in input order.
RECURSIVE PreOrder(_, _, _)
RECURSIVE PreOrderNested(_, _, _, _)
PreOrder(containers, prefix, i) ==
    IF i > Len(containers) THEN <<>>
    ELSE <<[op |-> "mkdir", node |-> prefix \o <<i>>],
           [op |-> "write", node |-> prefix \o <<i>>]>>
         \o PreOrderNested(containers[i], prefix \o <<i>>, 1, 1)
         \o PreOrder(containers, prefix, i + 1)
PreOrderNested(container, node, g, m) ==
    IF g > Len(container.Graphs) THEN <<>>
    ELSE IF m > Len(container.Graphs[g].GraphMetadata)
         THEN PreOrderNested(container, node, g + 1, 1)
         ELSE PreOrder(container.Graphs[g].GraphMetadata[m].MetadataLayout.Containers,
                       node \o <<g, m>>, 1)
              \o PreOrderNested(container, node, g, m + 1)

\* p lies strictly below the directory anc.
StrictlyInside(anc, p) ==
    /\ Len(p) > Len(anc) + 1
    /\ SubSeq(p, 1, Len(anc) + 1) = anc \o "/"

Returned == stack = <<>>
Succeeded == Returned /\ err = NoError

-----------------------------------------------------------------------------
(* Claims *)

\* C1: after a run that returns without error, for every container of the
\* tree the directory base/sanitize(c1)/.../sanitize(ck) exists and holds a
\* config.yaml with the configuration derived for that container.
C1_EveryContainerHasItsConfig ==
    Succeeded =>
        \A place \in PlacesOf(tree, <<>>) :
            LET d == DirOf(RootBase, tree, place) IN
            /\ d \in dirs
            /\ YamlPath(d) \in DOMAIN files
            /\ files[YamlPath(d)] \in
                   {Marshal(c) : c \in DerivedConfigs(yamlConfig, ContainerAt(tree, place))}

\* C2: no two distinct containers of the tree are written to the same
\* directory in a run.
C2_NoSharedDirectory ==
    \A j, k \in DOMAIN log :
        (log[j].op = "write" /\ log[k].op = "write" /\ log[j].path = log[k].path)
            => log[j].node = log[k].node

\* C3: the derived threshold list has at most one entry per (EntityID,
\* MetricID) pair, and the entry of a pair is the first threshold of the
\* global list that has the pair.
C3_OnePerPairFirstWins ==
    yOut # <<>> =>
        /\ \A i, j \in DOMAIN YamlDerived :
               PairOf(YamlDerived[i]) = PairOf(YamlDerived[j]) => i = j
        /\ \A i \in DOMAIN YamlDerived :
               \E k \in DOMAIN YamlGlobal :
                   /\ YamlGlobal[k] = YamlDerived[i]
                   /\ \A h \in 1..(k - 1) : PairOf(YamlGlobal[h]) # PairOf(YamlDerived[i])

C3_Witness ==
    /\ yOut # <<>>
    /\ \E i \in DOMAIN YamlDerived :
          /\ Cardinality({k \in DOMAIN YamlGlobal :
                             PairOf(YamlGlobal[k]) = PairOf(YamlDerived[i])}) > 1
          /\ \E k \in DOMAIN YamlGlobal :
                /\ PairOf(YamlGlobal[k]) = PairOf(YamlDerived[i])
                /\ YamlGlobal[k] # YamlDerived[i]
          /\ \E g \in DOMAIN yContainer.Graphs :
                /\ Len(yContainer.Graphs[g].GraphMetadata) = 2
                /\ \A m \in 1..2 :
                      PairOf(yContainer.Graphs[g].GraphMetadata[m]) = PairOf(YamlDerived[i])

\* C4: every pair that a GraphMeta directly under the container references
\* and that occurs in the global threshold list has an entry in the derived
\* list.
C4_EveryMatchingPairKept ==
    yOut # <<>> =>
        \A p \in DirectPairs(yContainer) :
            (\E k \in DOMAIN YamlGlobal : PairOf(YamlGlobal[k]) = p)
                => \E i \in DOMAIN YamlDerived : PairOf(YamlDerived[i]) = p

\* C5: every threshold of the derived configuration has the pair of some
\* GraphMeta directly under the container's own graphs.
C5_OnlyDirectPairs ==
    yOut # <<>> =>
        \A i \in DOMAIN YamlDerived : PairOf(YamlDerived[i]) \in DirectPairs(yContainer)

C5_Witness ==
    /\ yOut # <<>>
    /\ YamlDerived # <<>>
    /\ \E p \in NestedPairs(yContainer) \ DirectPairs(yContainer) :
          /\ \E k \in DOMAIN YamlGlobal : PairOf(YamlGlobal[k]) = p
          /\ \A i \in DOMAIN YamlDerived : PairOf(YamlDerived[i]) # p

\* C6: when a directory creation or a file write fails the run returns the
\* error at once; nothing that existed is removed or changed by the failure,
\* and no directory or file is created afterwards.
C6_FailFast ==
    [][/\ (err = NoError /\ err' # NoError) =>
              /\ stack' = <<>>
              /\ dirs' = dirs
              /\ log' = log
              /\ DOMAIN files \subseteq DOMAIN files'
              /\ \A p \in DOMAIN files' : p # err'.path => (p \in DOMAIN files /\ files'[p] = files[p])
       /\ err # NoError => (stack' = <<>> /\ dirs' = dirs /\ files' = files)
      ]_vars

C6_Witness ==
    /\ err.op = "mkdir"
    /\ Returned
    /\ Len(tree) = 2
    /\ NestedCalls(tree[1]) # <<>>
    /\ Len(log) = 2
    /\ Cardinality(dirs) = 3
    /\ DOMAIN files # {}

\* C7: the derived configuration has the DefaultConfig and the entity's Name,
\* ID, Ignore and Whitelist of the global configuration.
C7_PassThrough ==
    yOut # <<>> =>
        /\ yOut[1].Source.DefaultConfig = yConfig.Source.DefaultConfig
        /\ yOut[1].Source.Entity.Name = yConfig.Source.Entity.Name
        /\ yOut[1].Source.Entity.ID = yConfig.Source.Entity.ID
        /\ yOut[1].Source.Entity.Ignore = yConfig.Source.Entity.Ignore
        /\ yOut[1].Source.Entity.Whitelist = yConfig.Source.Entity.Whitelist

C7_Witness ==
    /\ yOut # <<>>
    /\ yConfig.Source.Entity.Whitelist.EntityIds # <<>>
    /\ yConfig.Source.Entity.Ignore.EntityIds # <<>>
    /\ Len(YamlDerived) = 1
    /\ Len(YamlGlobal) = MaxThresholds

\* C8: sanitizeFolderName(s) has the length of s, "_" where s has a reserved
\* character and the character of s elsewhere; it holds no reserved character
\* and sanitizing it again changes nothing.
C8_SanitizePointwise ==
    \A n \in DOMAIN sanOut :
        LET s == IF n = 1 THEN sanIn ELSE sanOut[n - 1]
            r == sanOut[n]
        IN  /\ Len(r) = Len(s)
            /\ \A i \in 1..Len(s) :
                   CharAt(r, i) = IF CharAt(s, i) \in Reserved THEN "_" ELSE CharAt(s, i)
            /\ \A i \in 1..Len(r) : CharAt(r, i) \notin Reserved
            /\ n = 2 => r = s

C8_Witness ==
    /\ Len(sanOut) = 2
    /\ Len(sanIn) = MaxLen
    /\ CharAt(sanIn, 1) = "|"
    /\ CharAt(sanIn, 2) = "a"
    /\ CharAt(sanIn, 3) = "|"

\* C9: the operations of a run are those of the depth-first pre-order walk of
\* the tree, in that order: a container's mkdir, its write, its nested lists
\* in input order, then its next sibling.
C9_PreOrder ==
    LET expected == PreOrder(tree, <<>>, 1) IN
    /\ Len(log) <= Len(expected)
    /\ \A k \in DOMAIN log :
           log[k].op = expected[k].op /\ log[k].node = expected[k].node
    /\ Succeeded => Len(log) = Len(expected)

C9_Witness ==
    /\ Succeeded
    /\ Len(tree) = 1
    /\ Len(NestedCalls(tree[1])) = 2
    /\ Len(log) = 6

\* C10: every directory created and every config.yaml written lies strictly
\* inside base, in a proper descendant of the directory of the parent.
C10_StrictlyInsideBase ==
    \A k \in DOMAIN log :
        /\ StrictlyInside(RootBase, log[k].path)
        /\ StrictlyInside(log[k].base, log[k].path)

====
